---- MODULE Spec2Model ----
(***************************************************************************)
(* Model of try-runtime's follow-chain command                              *)
(* (utils/frame/try-runtime/cli/src/commands/follow_chain.rs):              *)
(*   - FinalizedHeaders, the gap-filling stream of finalized headers;       *)
(*   - follow_chain, the driver that replays every returned header's block  *)
(*     on one lazily built state snapshot.                                  *)
(* Spec       : the driver follow_chain running on top of the stream.       *)
(* SpecStream : FinalizedHeaders used on its own, next() called repeatedly. *)
(***************************************************************************)
EXTENDS Integers, Sequences, FiniteSets, TLC

\* ---------------------------------------------------------------- bounds
\* Heights of the modelled chain are 0..MaxHeight.
MaxHeight == 4
\* Number of headers the subscription delivers before it has to close.
MaxDeliveries == 3
\* Width in bits of the header number type (Header::Number, at most u32).
NumberBits == 8

\* ---------------------------------------------------------------- options
None == <<>>
Some(x) == <<x>>
IsSome(o) == Len(o) = 1
Unwrap(o) == o[1]

\* ---------------------------------------------------------------- the chain
\* A hash is <<branch, height>>: branch 0 is the chain 0..MaxHeight, branch 1
\* a competing chain of the heights 1..MaxHeight that forks off block <<0,0>>.
ZeroHash == <<0, 0 - 1>>

ParentHashOf(b, h) ==
    IF h = 0 THEN ZeroHash
    ELSE IF b = 1 /\ h = 1 THEN <<0, 0>>
    ELSE <<b, h - 1>>

MkHeader(b, h) == [hash |-> <<b, h>>, number |-> h, parent_hash |-> ParentHashOf(b, h)]

Headers ==
    {MkHeader(0, h) : h \in 0..MaxHeight} \cup {MkHeader(1, h) : h \in 1..MaxHeight}

Hashes == {hd.hash : hd \in Headers}

\* What one poll of the subscription can yield.
SubscriptionItems ==
    {[kind |-> "header", header |-> hd] : hd \in Headers}
        \cup {[kind |-> "closed", header |-> MkHeader(0, 0)],
              [kind |-> "error", header |-> MkHeader(0, 0)]}

VARIABLES
    \* FinalizedHeaders
    subscription,       \* "open" or "closed": the state of the ws subscription
    fetched_headers,    \* VecDeque<Header>, front first
    last_returned,      \* Option<Number>
    \* build profile: TRUE when integer overflow panics, FALSE when it wraps
    overflow_checks,
    \* observations of the stream
    observed,           \* headers the subscription has delivered, in order
    returned,           \* headers next() has returned, in order
    last_next,          \* result of the latest next() call, None before it
    last_poll,          \* what the latest next() call got from the
                        \* subscription: "header", "closed", "error", or ""
                        \* when it did not poll
    ended_by,           \* why the latest next() call returned None:
                        \* "closed", "error", or "" when it did not
    prev_ended_by,      \* ended_by before the latest next() call
    last_fetch,         \* what the latest fetch() that got a header did
    stream_status       \* "ok", or "panic" once a call has panicked

streamVars == <<subscription, fetched_headers, last_returned, overflow_checks,
                observed, returned, last_next, last_poll, ended_by,
                prev_ended_by, last_fetch, stream_status>>

\* ran: a fetch() got a header; height: its height; before: last_returned
\* when it started; start: Len(returned) when it started; calls: get_header
\* calls it made; failed: one of them failed; overflow: the height
\* subtraction overflowed and panicked.
NoFetch == [ran |-> FALSE, height |-> 0, before |-> None, start |-> 0,
            calls |-> 0, failed |-> FALSE, overflow |-> FALSE]

\* ---------------------------------------------------------------- header provider
\* rpc_api::get_header: the header with that hash, or an error when the node
\* does not know the hash or the request fails.
RpcGetHeader(hash, reachable) ==
    IF reachable /\ hash \in Hashes
    THEN Some(CHOOSE hd \in Headers : hd.hash = hash)
    ELSE None

\* RpcHeaderProvider::get_header: unwrap() of the rpc result; None here stands
\* for the panic of unwrap().
get_header(hash, reachable) == RpcGetHeader(hash, reachable)

\* ---------------------------------------------------------------- number arithmetic
NumberModulus == 2 ^ NumberBits

\* current_height.sub(One::one()): panics on underflow when overflow checks
\* are compiled in, wraps otherwise.
SubOne(n) == (n - 1) % NumberModulus
SubOneOverflows(n) == n = 0

saturating_sub(a, b) == IF a > b THEN a - b ELSE 0

\* ---------------------------------------------------------------- fetch
\* Backfill that stops at a failed get_header instead of panicking.
RECURSIVE Backfill_mut(_, _, _, _, _)
Backfill_mut(queue, parent_hash, n, calls, fail_at) ==
    IF n = 0
    THEN [queue |-> queue, calls |-> calls, failed |-> FALSE, panicked |-> FALSE]
    ELSE LET parent_header == get_header(parent_hash, calls + 1 # fail_at)
         IN  IF ~IsSome(parent_header)
             THEN [queue |-> queue, calls |-> calls + 1, failed |-> TRUE,
                   panicked |-> FALSE]
             ELSE Backfill_mut(<<Unwrap(parent_header)>> \o queue,
                               Unwrap(parent_header).parent_hash,
                               n - 1, calls + 1, fail_at)

\* The for loop of fetch(): n iterations left, fail_at is the number of the
\* get_header call that fails (0: none fails).  A failed get_header panics.
RECURSIVE Backfill(_, _, _, _, _)
Backfill(queue, parent_hash, n, calls, fail_at) ==
    IF n = 0
    THEN [queue |-> queue, calls |-> calls, failed |-> FALSE, panicked |-> FALSE]
    ELSE LET parent_header == get_header(parent_hash, calls + 1 # fail_at)
         IN  IF ~IsSome(parent_header)
             THEN [queue |-> queue, calls |-> calls + 1, failed |-> TRUE,
                   panicked |-> TRUE]
             ELSE Backfill(<<Unwrap(parent_header)>> \o queue,
                           Unwrap(parent_header).parent_hash,
                           n - 1, calls + 1, fail_at)

\* next_from_subscription that hands out a header whatever the subscription
\* yielded.
next_from_subscription_mut(item) == Some(item.header)

\* next_from_subscription(): Some(header) only for a decoded header.
next_from_subscription(item) ==
    IF item.kind = "header" THEN Some(item.header) ELSE None

\* GapLength with the gap measured from the delivered height itself instead
\* of from its parent's.
GapLength_mut(current_height, last) ==
    LET last_height == IF IsSome(last) THEN Unwrap(last) ELSE current_height
    IN  saturating_sub(current_height, last_height)

\* Number of backfill iterations fetch() runs for a header of height
\* current_height.
GapLength(current_height, last) ==
    LET parent_height == SubOne(current_height)
        last_height == IF IsSome(last) THEN Unwrap(last) ELSE parent_height
    IN  saturating_sub(parent_height, last_height)

\* fetch(): the queue afterwards, the get_header calls made, whether one
\* failed and whether the call panicked.
fetch(queue, last, item, fail_at, checks) ==
    LET polled == next_from_subscription(item)
    IN  IF ~IsSome(polled)
        THEN [got |-> FALSE, queue |-> queue, calls |-> 0, failed |-> FALSE,
              panicked |-> FALSE, overflow |-> FALSE]
        ELSE LET last_finalized == Unwrap(polled)
                 pushed == <<last_finalized>> \o queue
                 current_height == last_finalized.number
             IN  IF SubOneOverflows(current_height) /\ checks
                 THEN [got |-> TRUE, queue |-> pushed, calls |-> 0,
                       failed |-> FALSE, panicked |-> TRUE, overflow |-> TRUE]
                 ELSE LET r == Backfill(pushed, last_finalized.parent_hash,
                                        GapLength(current_height, last), 0, fail_at)
                      IN  [got |-> TRUE, queue |-> r.queue, calls |-> r.calls,
                           failed |-> r.failed, panicked |-> r.panicked,
                           overflow |-> FALSE]

\* ---------------------------------------------------------------- next
\* PopFront that takes the newest header, from the back of the queue.
PopFront_mut(queue) ==
    IF queue # <<>>
    THEN [result |-> Some(queue[Len(queue)]),
          queue |-> SubSeq(queue, 1, Len(queue) - 1)]
    ELSE [result |-> None, queue |-> queue]

\* The pop at the end of next(): the header returned and the queue left.
PopFront(queue) ==
    IF queue # <<>>
    THEN [result |-> Some(Head(queue)), queue |-> Tail(queue)]
    ELSE [result |-> None, queue |-> queue]

\* Whether a call of next() polls the subscription.
NextPolls == fetched_headers = <<>>

\* The subscription can yield this item now: a closed subscription stays
\* closed, and it delivers at most MaxDeliveries headers.
CanYield(item) ==
    /\ subscription = "closed" => item.kind = "closed"
    /\ item.kind = "header" => Len(observed) < MaxDeliveries

\* One call of FinalizedHeaders::next().  item is what the subscription
\* yields if it is polled, fail_at the get_header call that fails.
NextCall(item, fail_at) ==
    /\ stream_status = "ok"
    /\ overflow_checks' = overflow_checks
    /\ prev_ended_by' = ended_by
    /\ IF NextPolls
       THEN LET f == fetch(fetched_headers, last_returned, item, fail_at,
                           overflow_checks)
                p == PopFront(f.queue)
            IN  /\ CanYield(item)
                /\ subscription' = IF item.kind = "closed" THEN "closed" ELSE subscription
                /\ observed' = IF item.kind = "header"
                               THEN Append(observed, item.header) ELSE observed
                /\ last_poll' = item.kind
                /\ last_fetch' = IF f.got
                                 THEN [ran |-> TRUE,
                                       height |-> item.header.number,
                                       before |-> last_returned,
                                       start |-> Len(returned),
                                       calls |-> f.calls,
                                       failed |-> f.failed,
                                       overflow |-> f.overflow]
                                 ELSE last_fetch
                /\ IF f.panicked
                   THEN /\ stream_status' = "panic"
                        /\ fetched_headers' = f.queue
                        /\ ended_by' = ""
                        /\ UNCHANGED <<last_returned, returned, last_next>>
                   ELSE /\ stream_status' = "ok"
                        /\ fetched_headers' = p.queue
                        /\ last_next' = p.result
                        /\ last_returned' = IF IsSome(p.result)
                                            THEN Some(Unwrap(p.result).number)
                                            ELSE last_returned
                        /\ returned' = IF IsSome(p.result)
                                       THEN Append(returned, Unwrap(p.result))
                                       ELSE returned
                        /\ ended_by' = IF IsSome(p.result) THEN "" ELSE item.kind
       ELSE LET p == PopFront(fetched_headers)
            IN  /\ fetched_headers' = p.queue
                /\ last_next' = p.result
                /\ last_returned' = Some(Unwrap(p.result).number)
                /\ returned' = Append(returned, Unwrap(p.result))
                /\ ended_by' = ""
                /\ last_poll' = ""
                /\ UNCHANGED <<subscription, observed, stream_status, last_fetch>>

StreamInit ==
    /\ subscription = "open"
    /\ fetched_headers = <<>>
    /\ last_returned = None
    /\ overflow_checks \in BOOLEAN
    /\ observed = <<>>
    /\ returned = <<>>
    /\ last_next = None
    /\ last_poll = ""
    /\ ended_by = ""
    /\ prev_ended_by = ""
    /\ last_fetch = NoFetch
    /\ stream_status = "ok"

\* The get_header call of one fetch() that fails (0: none).
FailPoints == 0..MaxHeight

\* ---------------------------------------------------------------- storage
\* The state snapshot is a map over these keys; values are numbers.
Keys == {"code", "number", "digest"}

RemoteCode == 0
LocalCode == 1

\* OverlayedChanges: a delta is a function from some of the keys to values.
ApplyDelta(kv, delta) ==
    [k \in Keys |-> IF k \in DOMAIN delta THEN delta[k] ELSE kv[k]]

\* The storage root of a key/value map under a state version (an injective
\* encoding stands for the trie hash).
RootOf(kv, state_version) ==
    <<state_version, kv["code"], kv["number"], kv["digest"]>>

\* What executing a block on a state writes.
BlockDelta(kv, hash) ==
    [k \in {"number", "digest"} |->
        IF k = "number" THEN hash[2]
        ELSE (kv["digest"] + hash[2] + hash[1] + 1) % 3]

\* The storage of the remote node at a block.
RECURSIVE RemoteState(_)
RemoteState(hash) ==
    IF hash[2] = 0
    THEN [k \in Keys |-> 0]
    ELSE LET parent == RemoteState(ParentHashOf(hash[1], hash[2]))
         IN  ApplyDelta(parent, BlockDelta(parent, hash))

\* rpc_api::get_block: the block with that hash (a block is identified by
\* its hash here), or an error.
RpcGetBlock(hash, reachable) ==
    IF reachable /\ hash \in Hashes THEN Some(hash) ELSE None

\* Builder::new().mode(Online{at}).inject_hashed_key_value(code).build():
\* the remote storage at `at` with the injected pairs on top, or an error.
BuilderBuild(at, injected, reachable) ==
    IF reachable /\ at \in Hashes
    THEN LET kv == ApplyDelta(RemoteState(at), injected)
         IN  Some([kv |-> kv, root |-> RootOf(kv, 0)])
    ELSE None

\* Runtime identities.
LocalSpec == [spec_name |-> "node", spec_version |-> 1]
RemoteSpecs ==
    {LocalSpec,
     [spec_name |-> "other", spec_version |-> 1],
     [spec_name |-> "node", spec_version |-> 2]}
StateVersions == {0, 1}

\* ensure_matching_spec: TRUE when it returns, FALSE when it aborts the run.
EnsureMatchingSpec(remote, expected_spec_name, expected_spec_version) ==
    /\ remote.spec_name = expected_spec_name
    /\ remote.spec_version = expected_spec_version

\* SCALE encoding of a u64 (8 little-endian bytes) and its decoding.
EncodeU64(n) == <<n % 256, (n \div 256) % 256, 0, 0, 0, 0, 0, 0>>
DecodeU64(bytes) ==
    IF Len(bytes) >= 8 THEN Some(bytes[1] + 256 * bytes[2]) ELSE None

\* state_machine_call_with_proof on "TryRuntime_execute_block_no_check":
\* the change-set and the encoded result, or an error.
\* well_formed: the runtime returned a complete u64.
StateMachineCallWithProof(ext, block, succeeds, well_formed) ==
    IF succeeds
    THEN Some([changes |-> BlockDelta(ext.kv, block),
               encoded_result |-> IF well_formed
                                  THEN EncodeU64(block[2] + 1)
                                  ELSE <<block[2] + 1>>])
    ELSE None

\* OverlayedChanges::drain_storage_changes: the transaction and the root the
\* backend has once the transaction is applied.
DrainStorageChanges(changes, backend, state_version) ==
    [transaction |-> changes,
     transaction_storage_root |-> RootOf(ApplyDelta(backend.kv, changes), state_version)]

\* backend.apply_transaction(root, transaction)
ApplyTransaction(backend, storage_root, transaction) ==
    [kv |-> ApplyDelta(backend.kv, transaction), root |-> storage_root]

\* ---------------------------------------------------------------- follow_chain
VARIABLES
    pc,                 \* "next", "get_block", "session", "execute", "decode",
                        \* "commit", "done"
    result,             \* "running", "Ok", "Err", "panic"
    header,             \* the header of the current iteration
    block,              \* the block of the current iteration
    maybe_state_ext,    \* Option<(ext, spec_state_version)>
    pending,            \* Option<(changes, encoded_result)> of the current block
    consumed_weight,    \* Option<u64>: the decoded result of the current block
    \* observations of the driver
    build_calls,        \* number of Builder::build() calls
    built,              \* what the builder was asked and what it returned
    spec_checks,        \* outcomes of ensure_matching_spec, in order
    exec_log,           \* state_machine_call_with_proof calls, in order
    commit_log,         \* apply_transaction calls, in order
    failed_at           \* the step that ended the run with an error or panic

driverVars == <<pc, result, header, block, maybe_state_ext, pending,
                consumed_weight, build_calls, built, spec_checks, exec_log,
                commit_log, failed_at>>

\* ------------------------------------------------------- randomness beacon
VARIABLES
    Seed,               \* storage Seed: Option<Randomness>
    DidUpdate,          \* storage DidUpdate: Option<bool>
    Verifier,           \* storage Verifier: Option<RandomnessVerifier>
    block_number,       \* frame_system's number of the current block
    phase,              \* "idle", "in_block", "panicked"
    configured,         \* T::RandomnessVerifier::get()
    \* observations of the pallet
    last_call,          \* the last call of the pallet and its outcome
    panic_message,      \* the message of the panic that ended the run
    first_seed,         \* the seed of the first successful set_random_bytes
                        \* of the current block
    in_order,           \* every block so far began at its predecessor + 1
    created,            \* what create_inherent returned in the current block
    applied,            \* the created inherent was applied in the current block
    foreign             \* another set_random_bytes call ran in the current block

beaconStorage == <<Seed, DidUpdate, Verifier>>

beaconVars == <<Seed, DidUpdate, Verifier, block_number, phase, configured,
                last_call, panic_message, first_seed, in_order, created,
                applied, foreign>>

vars == <<streamVars, driverVars, beaconVars>>

NoCall ==
    [op |-> "", now |-> 0, origin |-> "", randomness |-> None,
     second |-> FALSE, data |-> "", outcome |-> ""]

\* The storage of the pallet before its first block: nothing is stored.
BeaconGenesis(cfg) ==
    /\ Seed = None
    /\ DidUpdate = None
    /\ Verifier = None
    /\ block_number = 0
    /\ phase = "idle"
    /\ configured = cfg
    /\ last_call = NoCall
    /\ panic_message = ""
    /\ first_seed = None
    /\ in_order = TRUE
    /\ created = None
    /\ applied = FALSE
    /\ foreign = FALSE

\* `RandomnessVerifier::default()`, what `Verifier::get()` is when nothing
\* is stored and what the mock runtime configures.
DefaultVerifier == "default"

DriverInit ==
    /\ pc = "next"
    /\ result = "running"
    /\ header = None
    /\ block = None
    /\ maybe_state_ext = None
    /\ pending = None
    /\ consumed_weight = None
    /\ build_calls = 0
    /\ built = None
    /\ spec_checks = <<>>
    /\ exec_log = <<>>
    /\ commit_log = <<>>
    /\ failed_at = ""

Init == StreamInit /\ DriverInit /\ BeaconGenesis(Some(DefaultVerifier))

\* Finish that only logs an error or a panic and lets the loop go on.
Finish_mut(how, step) ==
    /\ pc' = IF how = "Ok" THEN "done" ELSE "next"
    /\ result' = IF how = "Ok" THEN "Ok" ELSE "running"
    /\ failed_at' = step

\* The run ends: Ok(()), Err(..) from `?`, or a panic.
Finish(how, step) ==
    /\ pc' = "done"
    /\ result' = how
    /\ failed_at' = step

\* EndOfStream that reports the end of the subscription as an error.
EndOfStream_mut == Finish("Err", "next")

\* The loop is over: "ws subscription must have terminated." and Ok(()).
EndOfStream == Finish("Ok", "")

\* SessionMissing that never finds a session.
SessionMissing_mut(session) == TRUE

\* `maybe_state_ext.is_none()`
SessionMissing(session) == session = None

\* DrainVersion that drains with the other state version.
DrainVersion_mut(session) == 1 - session.spec_state_version

\* `*spec_state_version`: the state version handed to drain_storage_changes.
DrainVersion(session) == session.spec_state_version

\* CommittedSession that drops the storage changes.
CommittedSession_mut(session, changes) == session

\* The session after drain_storage_changes and apply_transaction have run on
\* its backend for the change-set of the current block.
CommittedSession(session, changes) ==
    LET storage_changes == DrainStorageChanges(changes, session.ext,
                                               DrainVersion(session))
    IN  [session EXCEPT !.ext = ApplyTransaction(session.ext,
                                   storage_changes.transaction_storage_root,
                                   storage_changes.transaction)]

\* HeaderHash that takes the hash of the parent.
HeaderHash_mut(hd) == hd.parent_hash

\* `let hash = header.hash();`: the hash of the block to fetch and replay.
HeaderHash(hd) == hd.hash

\* SnapshotAnchor that anchors the snapshot at the header itself.
SnapshotAnchor_mut(hd) == hd.hash

\* `at: Some(*header.parent_hash())`: the block the snapshot is built at.
SnapshotAnchor(hd) == hd.parent_hash

\* `while let Some(header) = finalized_headers.next().await`
LoopNext ==
    /\ pc = "next"
    /\ \E item \in SubscriptionItems, fail_at \in FailPoints :
          /\ fetched_headers # <<>> => (item.kind = "closed" /\ fail_at = 0)
          /\ NextCall(item, fail_at)
    /\ IF stream_status' = "panic"
       THEN Finish("panic", "next") /\ UNCHANGED header
       ELSE IF IsSome(last_next')
            THEN /\ pc' = "get_block"
                 /\ header' = last_next'
                 /\ UNCHANGED <<result, failed_at>>
            ELSE EndOfStream /\ UNCHANGED header
    /\ UNCHANGED <<block, maybe_state_ext, pending, consumed_weight, build_calls,
                   built, spec_checks, exec_log, commit_log>>
    /\ UNCHANGED beaconVars

\* `rpc_api::get_block(&command.uri, hash).await.unwrap()`
GetBlock ==
    /\ pc = "get_block"
    /\ \E reachable \in BOOLEAN :
          LET fetched == RpcGetBlock(HeaderHash(Unwrap(header)), reachable)
          IN  IF IsSome(fetched)
              THEN /\ block' = fetched
                   /\ pc' = "session"
                   /\ UNCHANGED <<result, failed_at>>
              ELSE Finish("panic", "get_block") /\ UNCHANGED block
    /\ UNCHANGED <<header, maybe_state_ext, pending, consumed_weight, build_calls,
                   built, spec_checks, exec_log, commit_log>>
    /\ UNCHANGED <<streamVars, beaconVars>>

\* `if maybe_state_ext.is_none() { ... }`: build the snapshot at the parent
\* of the header, check the spec, keep the snapshot and the state version.
InitSession ==
    /\ pc = "session"
    /\ SessionMissing(maybe_state_ext)
    /\ \E reachable \in BOOLEAN, remote \in RemoteSpecs,
          spec_state_version \in StateVersions :
          LET at == SnapshotAnchor(Unwrap(header))
              new_ext == BuilderBuild(at, [k \in {"code"} |-> LocalCode], reachable)
              matches == EnsureMatchingSpec(remote, LocalSpec.spec_name,
                                            LocalSpec.spec_version)
          IN  /\ build_calls' = build_calls + 1
              /\ built' = Some([at |-> at, number |-> Unwrap(header).number,
                                seq |-> Len(returned), ext |-> new_ext])
              /\ IF ~IsSome(new_ext)
                 THEN /\ Finish("Err", "build")
                      /\ UNCHANGED <<maybe_state_ext, spec_checks>>
                 ELSE /\ spec_checks' = Append(spec_checks,
                                                [remote |-> remote, ok |-> matches])
                      /\ IF ~matches
                         THEN Finish("panic", "spec") /\ UNCHANGED maybe_state_ext
                         ELSE /\ maybe_state_ext' =
                                    Some([ext |-> Unwrap(new_ext),
                                          spec_state_version |-> spec_state_version])
                              /\ pc' = "execute"
                              /\ UNCHANGED <<result, failed_at>>
    /\ UNCHANGED <<header, block, pending, consumed_weight, exec_log, commit_log>>
    /\ UNCHANGED <<streamVars, beaconVars>>

\* The snapshot exists already: the `if` is skipped.
ReuseSession ==
    /\ pc = "session"
    /\ ~SessionMissing(maybe_state_ext)
    /\ pc' = "execute"
    /\ UNCHANGED <<result, header, block, maybe_state_ext, pending,
                   consumed_weight, build_calls, built, spec_checks, exec_log,
                   commit_log, failed_at>>
    /\ UNCHANGED <<streamVars, beaconVars>>

\* `state_machine_call_with_proof(state_ext, .., block.encode(), ..)?`
Execute ==
    /\ pc = "execute"
    /\ \E succeeds \in BOOLEAN, well_formed \in BOOLEAN :
          LET state_ext == Unwrap(maybe_state_ext).ext
              called == StateMachineCallWithProof(state_ext, Unwrap(block),
                                                  succeeds, well_formed)
          IN  /\ exec_log' = Append(exec_log,
                                    [block |-> Unwrap(block),
                                     number |-> Unwrap(header).number,
                                     pre_kv |-> state_ext.kv,
                                     pre_root |-> state_ext.root,
                                     ok |-> IsSome(called)])
              /\ IF IsSome(called)
                 THEN /\ pending' = called
                      /\ pc' = "decode"
                      /\ UNCHANGED <<result, failed_at>>
                 ELSE Finish("Err", "execute") /\ UNCHANGED pending
    /\ UNCHANGED <<header, block, maybe_state_ext, consumed_weight, build_calls,
                   built, spec_checks, commit_log>>
    /\ UNCHANGED <<streamVars, beaconVars>>

\* DecodeResult that takes a weight of 0 when the result does not decode.
DecodeResult_mut ==
    /\ pc = "decode"
    /\ LET decoded == DecodeU64(Unwrap(pending).encoded_result)
       IN  consumed_weight' = IF IsSome(decoded) THEN decoded ELSE Some(0)
    /\ pc' = "commit"
    /\ UNCHANGED <<result, failed_at>>
    /\ UNCHANGED <<header, block, maybe_state_ext, pending, build_calls, built,
                   spec_checks, exec_log, commit_log>>
    /\ UNCHANGED <<streamVars, beaconVars>>

\* `<u64 as Decode>::decode(&mut &*encoded_result).map_err(..)?`
DecodeResult ==
    /\ pc = "decode"
    /\ LET decoded == DecodeU64(Unwrap(pending).encoded_result)
       IN  IF IsSome(decoded)
           THEN /\ consumed_weight' = decoded
                /\ pc' = "commit"
                /\ UNCHANGED <<result, failed_at>>
           ELSE Finish("Err", "decode") /\ UNCHANGED consumed_weight
    /\ UNCHANGED <<header, block, maybe_state_ext, pending, build_calls, built,
                   spec_checks, exec_log, commit_log>>
    /\ UNCHANGED <<streamVars, beaconVars>>

\* `changes.drain_storage_changes(..).unwrap()` and
\* `state_ext.backend.apply_transaction(..)`, then the loop starts over.
Commit ==
    /\ pc = "commit"
    /\ \E drained \in BOOLEAN :
          LET session == Unwrap(maybe_state_ext)
              committed == CommittedSession(session, Unwrap(pending).changes)
          IN  IF drained
              THEN /\ maybe_state_ext' = Some(committed)
                   /\ commit_log' = Append(commit_log,
                                           [number |-> Unwrap(header).number,
                                            state_version |-> session.spec_state_version,
                                            transaction |-> Unwrap(pending).changes,
                                            root |-> committed.ext.root])
                   /\ pending' = None
                   /\ consumed_weight' = None
                   /\ pc' = "next"
                   /\ UNCHANGED <<result, failed_at>>
              ELSE /\ Finish("panic", "drain")
                   /\ UNCHANGED <<maybe_state_ext, commit_log, pending,
                                  consumed_weight>>
    /\ UNCHANGED <<header, block, build_calls, built, spec_checks, exec_log>>
    /\ UNCHANGED <<streamVars, beaconVars>>

Next ==
    \/ LoopNext
    \/ GetBlock
    \/ InitSession
    \/ ReuseSession
    \/ Execute
    \/ DecodeResult
    \/ Commit

Spec == Init /\ [][Next]_vars

\* ---------------------------------------------------------------- SpecStream
\* A caller polls the stream and the subscription yields a header.
StreamNextHeader ==
    \E item \in SubscriptionItems, fail_at \in FailPoints :
        /\ NextPolls /\ item.kind = "header"
        /\ NextCall(item, fail_at)
        /\ UNCHANGED <<driverVars, beaconVars>>

\* A caller polls the stream and the subscription is closed.
StreamNextClosed ==
    \E item \in SubscriptionItems :
        /\ NextPolls /\ item.kind = "closed"
        /\ NextCall(item, 0)
        /\ UNCHANGED <<driverVars, beaconVars>>

\* A caller polls the stream and the subscription yields a decode error.
StreamNextError ==
    \E item \in SubscriptionItems :
        /\ NextPolls /\ item.kind = "error"
        /\ NextCall(item, 0)
        /\ UNCHANGED <<driverVars, beaconVars>>

\* A caller takes a buffered header.
StreamNextBuffered ==
    \E item \in SubscriptionItems :
        /\ ~NextPolls /\ item.kind = "closed"
        /\ NextCall(item, 0)
        /\ UNCHANGED <<driverVars, beaconVars>>

InitStream == Init

NextStream ==
    \/ StreamNextHeader
    \/ StreamNextClosed
    \/ StreamNextError
    \/ StreamNextBuffered

SpecStream == InitStream /\ [][NextStream]_vars

\* ------------------------------------------------------- randomness beacon
MaxBlock == 4

\* `pub const StartHeight: BlockNumber = 3;`
StartHeight == 3

\* `pub const RandomnessVerifierReady: BlockNumber = 2;`
RandomnessVerifierReady == 2

Verifiers == {DefaultVerifier, "master"}
ConfiguredVerifiers == {None} \cup {Some(v) : v \in Verifiers}

\* A randomness is a value and the key that signed it.
Randomnesses == [signer : Verifiers, value : {"r1", "r2"}]

\* `verifier.verify(&randomness)`: the randomness was signed for this verifier.
Verify(key, randomness) == randomness.signer = key

\* `Self::verifier()`: the stored verifier, the default one when none is stored.
verifier(stored) == IF IsSome(stored) THEN Unwrap(stored) ELSE DefaultVerifier

Origins == {"none", "signed"}

FailedToVerify == "Failed to verify randomness"
SetOnlyOnce == "Randomness must be set only once in the block"
MustBePut == "Randomness must be put into the block"
VerifierExists == "assertion failed: !<Self as Store>::Verifier::exists()"
NoMasterKey == "assertion failed: Self::set_master_key()"

\* set_master_key writes the configured verifier, if there is one.
set_master_key(cfg, stored) ==
    IF IsSome(cfg)
    THEN [done |-> TRUE, Verifier |-> cfg]
    ELSE [done |-> FALSE, Verifier |-> stored]

\* VerifierDue that is true from RandomnessVerifierReady on.
VerifierDue_mut(now) == now >= RandomnessVerifierReady

\* `if now == T::RandomnessVerifierReady::get()`
VerifierDue(now) == now = RandomnessVerifierReady

\* on_initialize: the outcome and the stored verifier after it.
on_initialize(now, cfg, stored) ==
    IF VerifierDue(now)
    THEN IF IsSome(stored)
         THEN [outcome |-> "panic", message |-> VerifierExists, Verifier |-> stored]
         ELSE LET key == set_master_key(cfg, stored)
              IN  IF key.done
                  THEN [outcome |-> "Ok", message |-> "", Verifier |-> key.Verifier]
                  ELSE [outcome |-> "panic", message |-> NoMasterKey,
                        Verifier |-> key.Verifier]
    ELSE [outcome |-> "Ok", message |-> "", Verifier |-> stored]

\* AlreadySet that never sees the flag.
AlreadySet_mut(did_update) == did_update # did_update

\* `<Self as Store>::DidUpdate::exists()`
AlreadySet(did_update) == IsSome(did_update)

\* set_random_bytes: the outcome and Seed and DidUpdate after it.
set_random_bytes(origin, randomness, seed, did_update, stored) ==
    IF origin # "none"
    THEN [outcome |-> "BadOrigin", message |-> "", Seed |-> seed,
          DidUpdate |-> did_update]
    ELSE IF ~Verify(verifier(stored), randomness)
    THEN [outcome |-> "panic", message |-> FailedToVerify, Seed |-> seed,
          DidUpdate |-> did_update]
    ELSE IF AlreadySet(did_update)
    THEN [outcome |-> "panic", message |-> SetOnlyOnce, Seed |-> seed,
          DidUpdate |-> did_update]
    ELSE [outcome |-> "Ok", message |-> "", Seed |-> Some(randomness),
          DidUpdate |-> Some(TRUE)]

\* on_finalize: the outcome and DidUpdate after it; `take()` of a flag that is
\* not stored is false.
on_finalize(bn, did_update) ==
    IF bn >= StartHeight
    THEN IF IsSome(did_update) /\ Unwrap(did_update)
         THEN [outcome |-> "Ok", message |-> "", DidUpdate |-> None]
         ELSE [outcome |-> "panic", message |-> MustBePut, DidUpdate |-> None]
    ELSE [outcome |-> "Ok", message |-> "", DidUpdate |-> did_update]

\* BelowStart that takes StartHeight itself as below.
BelowStart_mut(now) == now <= StartHeight

\* `if now < T::StartHeight::get()`
BelowStart(now) == now < StartHeight

\* check_inherent: the result for a call of the pallet.
check_inherent(call, now, stored) ==
    IF BelowStart(now) THEN "Ok"
    ELSE IF ~IsSome(stored) THEN "VerifyKeyNotSet"
    ELSE IF call.kind # "set_random_bytes" THEN "Ok"
    ELSE IF ~Verify(verifier(stored), call.randomness) THEN "InvalidRandomBytes"
    ELSE "Ok"

\* What the inherent data holds under the identifier of the pallet: a
\* randomness, nothing, or bytes that do not decode.
InherentDatas ==
    {[kind |-> "ok", randomness |-> Some(r)] : r \in Randomnesses}
        \cup {[kind |-> k, randomness |-> None] : k \in {"missing", "error"}}

DataError == "Panic because of error in retrieving inherent_data with err"
DataMissing == "Panic because no random_bytes found in inherent_data."

\* extract_random_bytes: the randomness of the inherent data, or a panic.
extract_random_bytes(data) ==
    IF data.kind = "error"
    THEN [outcome |-> "panic", message |-> DataError, call |-> None]
    ELSE IF ~IsSome(data.randomness)
    THEN [outcome |-> "panic", message |-> DataMissing, call |-> None]
    ELSE [outcome |-> "Some", message |-> "", call |-> data.randomness]

\* CreateDue that starts one block late.
CreateDue_mut(now) == now > StartHeight

\* `if now >= T::StartHeight::get()`
CreateDue(now) == now >= StartHeight

\* create_inherent: Some(set_random_bytes(randomness)), None, or a panic.
create_inherent(data, now) ==
    IF CreateDue(now)
    THEN extract_random_bytes(data)
    ELSE [outcome |-> "None", message |-> "", call |-> None]

\* The calls of the pallet: set_random_bytes is its only dispatchable.
Calls == [kind : {"set_random_bytes"}, randomness : Randomnesses]

\* A block begins: frame_system takes its number and the hook runs.
OnInitialize ==
    /\ phase = "idle"
    /\ \E now \in 0..MaxBlock :
          LET r == on_initialize(now, configured, Verifier)
          IN  /\ block_number' = now
              /\ in_order' = (in_order /\ (last_call = NoCall \/ now = block_number + 1))
              /\ Verifier' = r.Verifier
              /\ phase' = IF r.outcome = "panic" THEN "panicked" ELSE "in_block"
              /\ panic_message' = r.message
              /\ last_call' = [NoCall EXCEPT !.op = "on_initialize", !.now = now,
                                             !.outcome = r.outcome]
    /\ first_seed' = None
    /\ created' = None
    /\ applied' = FALSE
    /\ foreign' = FALSE
    /\ UNCHANGED <<Seed, DidUpdate, configured>>
    /\ UNCHANGED <<streamVars, driverVars>>

\* An extrinsic of the block calls set_random_bytes.
SetRandomBytes ==
    /\ phase = "in_block"
    /\ \E origin \in Origins, randomness \in Randomnesses :
          LET r == set_random_bytes(origin, randomness, Seed, DidUpdate, Verifier)
          IN  /\ Seed' = r.Seed
              /\ DidUpdate' = r.DidUpdate
              /\ phase' = IF r.outcome = "panic" THEN "panicked" ELSE phase
              /\ panic_message' = r.message
              /\ first_seed' = IF r.outcome = "Ok" /\ ~IsSome(first_seed)
                               THEN Some(randomness) ELSE first_seed
              /\ last_call' = [NoCall EXCEPT !.op = "set_random_bytes",
                                             !.now = block_number,
                                             !.origin = origin,
                                             !.randomness = Some(randomness),
                                             !.second = IsSome(first_seed),
                                             !.outcome = r.outcome]
    /\ foreign' = TRUE
    /\ UNCHANGED <<Verifier, block_number, configured, in_order, created, applied>>
    /\ UNCHANGED <<streamVars, driverVars>>

\* The block ends: the hook runs with the number of the block.
OnFinalize ==
    /\ phase = "in_block"
    /\ LET r == on_finalize(block_number, DidUpdate)
       IN  /\ DidUpdate' = r.DidUpdate
           /\ phase' = IF r.outcome = "panic" THEN "panicked" ELSE "idle"
           /\ panic_message' = r.message
           /\ last_call' = [NoCall EXCEPT !.op = "on_finalize",
                                          !.now = block_number,
                                          !.outcome = r.outcome]
    /\ UNCHANGED <<Seed, Verifier, block_number, configured, first_seed, in_order,
                   created, applied, foreign>>
    /\ UNCHANGED <<streamVars, driverVars>>

\* An importer checks an inherent of the block.
CheckInherent ==
    /\ phase = "in_block"
    /\ \E call \in Calls :
          last_call' = [NoCall EXCEPT !.op = "check_inherent",
                                     !.now = block_number,
                                     !.randomness = Some(call.randomness),
                                     !.outcome = check_inherent(call, block_number,
                                                                Verifier)]
    /\ UNCHANGED <<Seed, DidUpdate, Verifier, block_number, phase, configured,
                   panic_message, first_seed, in_order, created, applied, foreign>>
    /\ UNCHANGED <<streamVars, driverVars>>

\* The block author asks the pallet for its inherent.
CreateInherent ==
    /\ phase = "in_block"
    /\ created = None
    /\ \E data \in InherentDatas :
          LET r == create_inherent(data, block_number)
          IN  /\ created' = IF r.outcome = "panic" THEN None ELSE Some(r.call)
              /\ phase' = IF r.outcome = "panic" THEN "panicked" ELSE phase
              /\ panic_message' = r.message
              /\ last_call' = [NoCall EXCEPT !.op = "create_inherent",
                                             !.now = block_number,
                                             !.randomness = data.randomness,
                                             !.data = data.kind,
                                             !.outcome = r.outcome]
    /\ UNCHANGED <<Seed, DidUpdate, Verifier, block_number, configured,
                   first_seed, in_order, applied, foreign>>
    /\ UNCHANGED <<streamVars, driverVars>>

\* The created inherent is applied: set_random_bytes with origin none.
ApplyInherent ==
    /\ phase = "in_block"
    /\ IsSome(created) /\ IsSome(Unwrap(created))
    /\ ~applied
    /\ LET randomness == Unwrap(Unwrap(created))
           r == set_random_bytes("none", randomness, Seed, DidUpdate, Verifier)
       IN  /\ Seed' = r.Seed
           /\ DidUpdate' = r.DidUpdate
           /\ phase' = IF r.outcome = "panic" THEN "panicked" ELSE phase
           /\ panic_message' = r.message
           /\ first_seed' = IF r.outcome = "Ok" /\ ~IsSome(first_seed)
                            THEN Some(randomness) ELSE first_seed
           /\ last_call' = [NoCall EXCEPT !.op = "set_random_bytes",
                                          !.now = block_number,
                                          !.origin = "none",
                                          !.randomness = Some(randomness),
                                          !.second = IsSome(first_seed),
                                          !.outcome = r.outcome]
    /\ applied' = TRUE
    /\ UNCHANGED <<Verifier, block_number, configured, in_order, created, foreign>>
    /\ UNCHANGED <<streamVars, driverVars>>

InitBeacon ==
    /\ StreamInit
    /\ DriverInit
    /\ \E cfg \in ConfiguredVerifiers : BeaconGenesis(cfg)

NextBeacon ==
    \/ OnInitialize
    \/ SetRandomBytes
    \/ OnFinalize
    \/ CheckInherent
    \/ CreateInherent
    \/ ApplyInherent

SpecBeacon == InitBeacon /\ [][NextBeacon]_vars

\* ================================================================ properties
Heights(hs) == [i \in 1..Len(hs) |-> hs[i].number]
Last(q) == q[Len(q)]

\* The heights first, first + 1, ..., last.
Range(first, last) ==
    [i \in 1..(IF last >= first THEN last - first + 1 ELSE 0) |-> first + i - 1]

\* Every header is on the chain that ends in tip.
RECURSIVE OnChainTo(_, _)
OnChainTo(hash, tip) ==
    \/ hash = tip
    \/ /\ tip[2] > hash[2]
       /\ OnChainTo(hash, ParentHashOf(tip[1], tip[2]))

OneLinearChain(hs) ==
    \E tip \in Hashes : \A i \in 1..Len(hs) : OnChainTo(hs[i].hash, tip)

\* C1: whatever the subscription delivers, the heights next() has returned
\* increase by exactly one from call to call and start at the first height
\* the subscription delivered (so no height is returned twice).
C1_Ordering ==
    /\ \A i \in 1..(Len(returned) - 1) :
          returned[i + 1].number = returned[i].number + 1
    /\ returned # <<>> => returned[1].number = observed[1].number

\* C2: when all delivered headers lie on one chain and next() has been
\* called until it returned the last header the subscription delivered, the
\* heights returned are first, first + 1, ..., last: every height between
\* the first and the last observed header once, in ascending order.
C2_Complete ==
    (/\ stream_status = "ok"
     /\ observed # <<>>
     /\ OneLinearChain(observed)
     /\ fetched_headers = <<>>
     /\ returned # <<>>
     /\ Last(returned) = Last(observed))
    => Heights(returned) = Range(observed[1].number, Last(observed).number)

\* The latest fetch() met a gap: something had been returned before, at
\* height l, and the subscription delivered a height h > l + 1.
GapFetch ==
    /\ last_fetch.ran
    /\ IsSome(last_fetch.before)
    /\ last_fetch.height > Unwrap(last_fetch.before) + 1

\* C3: a fetch() that meets a gap between the last returned height l and the
\* delivered height h makes h - l - 1 get_header calls, following the parent
\* hashes back from the delivered header, and the next() calls from then on
\* return the heights l + 1, l + 2, ..., h in that order, the delivered
\* header last.
C3_GapRecovery ==
    (GapFetch /\ stream_status = "ok")
    => LET l == Unwrap(last_fetch.before)
           h == last_fetch.height
           since == SubSeq(returned, last_fetch.start + 1, Len(returned))
           all == since \o fetched_headers
       IN  /\ last_fetch.calls = h - l - 1
           /\ ~last_fetch.failed
           /\ since # <<>>
           /\ Heights(all) = Range(l + 1, h)
           /\ Last(all) = Last(observed)
           /\ \A i \in 1..(Len(all) - 1) : all[i].hash = all[i + 1].parent_hash

\* C3 witness: a gap of two missing heights has been recovered and all of
\* it returned.
C3_Witness ==
    /\ GapFetch /\ stream_status = "ok"
    /\ last_fetch.calls = 2
    /\ fetched_headers = <<>>
    /\ Len(returned) = last_fetch.start + 3

\* C4: Builder::build is called at most once in a run, for the first header
\* the stream returned, and it has been called once whenever a session
\* exists or a block has been executed; an existing session is never dropped
\* and never built again.
C4_SessionSingleton ==
    /\ [](/\ build_calls <= 1
          /\ (build_calls = 1) <=> IsSome(built)
          /\ IsSome(built) => /\ Unwrap(built).seq = 1
                              /\ Unwrap(built).number = returned[1].number
          /\ (IsSome(maybe_state_ext) \/ exec_log # <<>>) => build_calls = 1)
    /\ [][IsSome(maybe_state_ext) =>
            /\ IsSome(maybe_state_ext')
            /\ build_calls' = build_calls
            /\ built' = built]_vars

\* C4 witness: two blocks have been committed on the one session.
C4_Witness == build_calls = 1 /\ Len(commit_log) = 2 /\ pc = "execute"

\* The storage after the diffs have been applied in order.
RECURSIVE ApplyDiffs(_, _)
ApplyDiffs(kv, diffs) ==
    IF diffs = <<>> THEN kv
    ELSE ApplyDiffs(ApplyDelta(kv, Head(diffs)), Tail(diffs))

Diffs(k) == [i \in 1..k |-> commit_log[i].transaction]

\* C5: the backend of the session holds the built snapshot with the diffs of
\* all committed blocks applied in order, and its root is the root of that
\* storage; every block was executed on the storage and root its predecessor
\* left (the built snapshot for the first block).
C5_StateChaining ==
    IsSome(maybe_state_ext) =>
        LET session == Unwrap(maybe_state_ext)
            initial == Unwrap(Unwrap(built).ext)
            k == Len(commit_log)
        IN  /\ session.ext.kv = ApplyDiffs(initial.kv, Diffs(k))
            /\ session.ext.root =
                  IF k = 0 THEN initial.root
                  ELSE RootOf(ApplyDiffs(initial.kv, Diffs(k)),
                              session.spec_state_version)
            /\ Len(exec_log) \in {k, k + 1}
            /\ \A i \in 1..Len(exec_log) :
                  /\ exec_log[i].pre_kv = ApplyDiffs(initial.kv, Diffs(i - 1))
                  /\ exec_log[i].pre_root =
                        IF i = 1 THEN initial.root ELSE commit_log[i - 1].root

\* C5 witness: three blocks have been executed and committed in a row, each
\* changing the storage.
C5_Witness ==
    /\ Len(commit_log) = 3
    /\ pc = "next"
    /\ Unwrap(maybe_state_ext).ext.kv # Unwrap(Unwrap(built).ext).kv
    /\ commit_log[2].root # commit_log[3].root

C7_CleanTermination ==
    /\ [][(pc = "next" /\ fetched_headers = <<>>
             /\ last_poll' \in {"closed", "error"}) =>
            /\ last_next' = None
            /\ pc' = "done"
            /\ result' = "Ok"
            /\ exec_log' = exec_log
            /\ returned' = returned]_vars
    /\ [](result = "Ok" =>
            /\ pc = "done"
            /\ last_next = None
            /\ ended_by \in {"closed", "error"})
    /\ [][pc = "done" => UNCHANGED vars]_vars

\* C7 witness: the run ended with Ok(()) on a closed subscription after a
\* block had been replayed.
C7_Witness ==
    /\ result = "Ok" /\ ended_by = "closed" /\ commit_log # <<>>

C9_BackfillFatal ==
    last_fetch.failed =>
        /\ stream_status = "panic"
        /\ pc = "done"
        /\ result = "panic"
        /\ failed_at = "next"
        /\ Len(returned) = last_fetch.start
        /\ Len(exec_log) <= last_fetch.start

\* C9 witness: the second get_header call of a backfill failed after one
\* header had been backfilled, in a run that had replayed a block.
C9_Witness ==
    /\ last_fetch.failed
    /\ last_fetch.calls = 2
    /\ Len(fetched_headers) = 2
    /\ commit_log # <<>>

\* The executor's result of the current block does not decode and the decode
\* step is over.
DecodeFailed ==
    /\ IsSome(pending)
    /\ ~IsSome(DecodeU64(Unwrap(pending).encoded_result))
    /\ pc # "decode"

\* C10: when the result of a block does not decode, follow_chain has
\* returned an error at the decoding of that block: the block is not
\* committed and no header has been taken from the stream after it.
C10_DecodeFatal ==
    DecodeFailed =>
        /\ pc = "done"
        /\ result = "Err"
        /\ failed_at = "decode"
        /\ consumed_weight = None
        /\ Len(commit_log) = Len(exec_log) - 1
        /\ Last(exec_log).block = Unwrap(header).hash
        /\ Last(returned) = Unwrap(header)

\* C10 witness: the result of the second block of a run did not decode.
C10_Witness ==
    /\ DecodeFailed
    /\ failed_at = "decode"
    /\ Len(commit_log) = 1

Linked(q) ==
    \A i \in 1..(Len(q) - 1) :
        /\ q[i + 1].number = q[i].number + 1
        /\ q[i].hash = q[i + 1].parent_hash

\* C16: right after a next() call that returned a header, last_returned is
\* the height of that header, and fetched_headers is empty or a run of
\* consecutive, parent-linked headers that starts at height
\* last_returned + 1 and ends with the latest header of the subscription.
C16_QueueInvariant ==
    (IsSome(last_next) /\ stream_status = "ok") =>
        /\ last_returned = Some(Unwrap(last_next).number)
        /\ Unwrap(last_next) = Last(returned)
        /\ fetched_headers # <<>> =>
              /\ Linked(fetched_headers)
              /\ Head(fetched_headers).number = Unwrap(last_returned) + 1
              /\ Head(fetched_headers).parent_hash = Unwrap(last_next).hash
              /\ Last(fetched_headers) = Last(observed)

\* C16 witness: a header has been returned from a backfilled gap and two
\* more are queued behind it.
C16_Witness ==
    /\ IsSome(last_next) /\ stream_status = "ok"
    /\ Len(fetched_headers) = 2
    /\ Len(returned) = 2

\* The first fetch(): nothing had been returned when the subscription
\* delivered a header.
FirstFetch == last_fetch.ran /\ last_fetch.before = None

\* C17: a fetch() made while last_returned is None makes no get_header call,
\* whatever the height of the delivered header, and the next() call it is
\* part of returns exactly that header.
C17_NoBackfillAtFirst ==
    FirstFetch =>
        /\ last_fetch.calls = 0
        /\ stream_status = "ok"
        /\ Len(returned) >= last_fetch.start + 1
        /\ returned[last_fetch.start + 1] = Last(observed)

\* The steps a run may take from one position to the next.
StepOrder ==
    {<<"next", "get_block">>, <<"get_block", "session">>,
     <<"session", "execute">>, <<"execute", "decode">>,
     <<"decode", "commit">>, <<"commit", "next">>}
        \cup {<<p, "done">> : p \in {"next", "get_block", "session", "execute",
                                    "decode", "commit"}}

\* C18: the blocks executed are the blocks of the headers the stream
\* returned, one each and in the same order; a header is taken from the
\* stream only when the diffs of all blocks before it have been applied; the
\* steps of one header run in the order get_block, session initialization
\* (first header only), execute, decode, apply.
C18_SequentialReplay ==
    /\ [](/\ Len(exec_log) <= Len(returned)
          /\ Len(commit_log) <= Len(exec_log)
          /\ Len(returned) <= Len(commit_log) + 1
          /\ \A i \in 1..Len(exec_log) :
                /\ exec_log[i].block = returned[i].hash
                /\ exec_log[i].number = returned[i].number
          /\ \A i \in 1..Len(commit_log) :
                commit_log[i].number = returned[i].number
          /\ pc = "next" => Len(commit_log) = Len(returned)
          /\ pc \in {"session", "execute", "decode", "commit"} =>
                /\ block = Some(Last(returned).hash)
                /\ header = Some(Last(returned))
          /\ pc \in {"decode", "commit"} => Len(exec_log) = Len(returned)
          /\ IsSome(built) => Unwrap(built).seq = 1)
    /\ [][pc' # pc => <<pc, pc'>> \in StepOrder]_vars
    /\ [][returned' # returned => (pc = "next" /\ Len(commit_log) = Len(returned))]_vars
    /\ [][exec_log' # exec_log => (pc = "execute" /\ IsSome(maybe_state_ext)
                                     /\ Len(exec_log) = Len(commit_log))]_vars
    /\ [][commit_log' # commit_log => (pc = "commit" /\ IsSome(consumed_weight))]_vars

\* C18 witness: the third header is being replayed after two blocks have
\* been committed.
C18_Witness ==
    /\ pc = "commit"
    /\ Len(returned) = 3
    /\ Len(commit_log) = 2

\* C19: the state version of the session never changes once the session
\* exists, and every block has been drained with it: the root of each
\* committed block is a root under the recorded state version.
C19_StateVersionFixed ==
    /\ [](IsSome(maybe_state_ext) =>
            \A i \in 1..Len(commit_log) :
                /\ commit_log[i].state_version =
                      Unwrap(maybe_state_ext).spec_state_version
                /\ commit_log[i].root[1] =
                      Unwrap(maybe_state_ext).spec_state_version)
    /\ [][IsSome(maybe_state_ext) =>
            /\ IsSome(maybe_state_ext')
            /\ Unwrap(maybe_state_ext').spec_state_version =
                  Unwrap(maybe_state_ext).spec_state_version]_vars

\* C19 witness: two blocks have been committed under state version 1.
C19_Witness ==
    /\ Len(commit_log) = 2
    /\ Unwrap(maybe_state_ext).spec_state_version = 1

\* C12: within one block the seed is set at most once: a second
\* set_random_bytes call made before on_finalize of the same block panics with
\* "Randomness must be set only once in the block" and leaves Seed as the
\* first call wrote it.
C12_SecondCallPanics ==
    (last_call.op = "set_random_bytes" /\ last_call.second) =>
        /\ last_call.outcome = "panic"
        /\ panic_message = SetOnlyOnce
        /\ Seed = first_seed

\* C12, amended: a second set_random_bytes call of the same block never sets
\* the seed and leaves Seed and DidUpdate as the first call wrote them; it
\* returns BadOrigin without a panic when its origin is not none, panics with
\* "Failed to verify randomness" when the verifier rejects its randomness, and
\* panics with "Randomness must be set only once in the block" otherwise.
C12_SecondCallNeverSets ==
    (last_call.op = "set_random_bytes" /\ last_call.second) =>
        /\ Seed = first_seed
        /\ DidUpdate = Some(TRUE)
        /\ IF last_call.origin # "none"
           THEN last_call.outcome = "BadOrigin" /\ phase = "in_block"
           ELSE /\ last_call.outcome = "panic"
                /\ phase = "panicked"
                /\ panic_message =
                      IF Verify(verifier(Verifier), Unwrap(last_call.randomness))
                      THEN SetOnlyOnce ELSE FailedToVerify

\* A second call with another, valid randomness panicked.
C12_Witness ==
    /\ last_call.op = "set_random_bytes"
    /\ last_call.second
    /\ last_call.randomness # first_seed
    /\ panic_message = SetOnlyOnce
    /\ Seed = first_seed

\* C13: on_finalize(bn) with bn >= StartHeight completes only if
\* set_random_bytes succeeded in that same block and panics with "Randomness
\* must be put into the block" otherwise; below StartHeight it never panics.
\* Stated for blocks that come one after the other.
C13_FinalizeNeedsSeed ==
    (in_order /\ last_call.op = "on_finalize") =>
        IF last_call.now >= StartHeight
        THEN IF IsSome(first_seed)
             THEN last_call.outcome = "Ok"
             ELSE last_call.outcome = "panic" /\ panic_message = MustBePut
        ELSE last_call.outcome = "Ok"

\* C14: on_initialize at RandomnessVerifierReady stores the configured
\* verifier, on_initialize at any other height leaves Verifier unchanged, and
\* Verifier is written at most once: a second on_initialize at
\* RandomnessVerifierReady, or a missing configured verifier, panics and
\* writes nothing.
C14_VerifierSetOnce ==
    /\ []((last_call.op = "on_initialize" /\ last_call.now = RandomnessVerifierReady
             /\ last_call.outcome = "Ok")
            => (IsSome(configured) /\ Verifier = configured))
    /\ [][(last_call'.op = "on_initialize"
             /\ last_call'.now # RandomnessVerifierReady)
            => (Verifier' = Verifier /\ last_call'.outcome = "Ok")]_vars
    /\ [][IsSome(Verifier) => (Verifier' = Verifier)]_vars
    /\ [][(last_call'.op = "on_initialize"
             /\ last_call'.now = RandomnessVerifierReady
             /\ (IsSome(Verifier) \/ ~IsSome(configured)))
            => (last_call'.outcome = "panic" /\ Verifier' = Verifier)]_vars
    /\ [][(last_call'.op # "on_initialize") => (Verifier' = Verifier)]_vars

\* A second on_initialize at RandomnessVerifierReady panicked and the verifier
\* of the first one is still stored.
C14_Witness ==
    /\ last_call.op = "on_initialize"
    /\ last_call.now = RandomnessVerifierReady
    /\ panic_message = VerifierExists
    /\ Verifier = configured

\* C20: check_inherent is Ok for every call below StartHeight; at or above it,
\* it is VerifyKeyNotSet when no Verifier is stored, InvalidRandomBytes when a
\* set_random_bytes call carries randomness the stored verifier rejects, and
\* Ok otherwise; it never modifies storage.
C20_CheckInherent ==
    /\ [](last_call.op = "check_inherent" =>
            last_call.outcome =
               IF block_number < StartHeight THEN "Ok"
               ELSE IF Verifier = None THEN "VerifyKeyNotSet"
               ELSE IF Unwrap(last_call.randomness).signer # Unwrap(Verifier)
                    THEN "InvalidRandomBytes"
               ELSE "Ok")
    /\ [][(last_call'.op = "check_inherent")
            => (beaconStorage' = beaconStorage /\ phase' = phase
                /\ block_number' = block_number)]_vars

\* At StartHeight a stored verifier rejected the randomness of the call.
C20_Witness ==
    /\ last_call.op = "check_inherent"
    /\ last_call.outcome = "InvalidRandomBytes"
    /\ block_number = StartHeight
    /\ IsSome(Verifier)

\* The last block handed to the executor failed: the call returned an error,
\* or its result bytes did not decode.
BlockFailed ==
    \/ exec_log # <<>> /\ ~Last(exec_log).ok
    \/ DecodeFailed

\* C23: when state_machine_call_with_proof returns an error or the result
\* bytes do not decode, the run has ended without apply_transaction for that
\* block, and the backend of the snapshot has the root and the contents the
\* previous committed block left (those of the builder for the first block),
\* which are the ones the failed block was executed on.
C23_NoChangeOnFailure ==
    BlockFailed =>
        LET ext == Unwrap(maybe_state_ext).ext
            initial == Unwrap(Unwrap(built).ext)
            k == Len(commit_log)
        IN  /\ pc = "done"
            /\ result = "Err"
            /\ k = Len(exec_log) - 1
            /\ ext.kv = ApplyDiffs(initial.kv, Diffs(k))
            /\ ext.root = IF k = 0 THEN initial.root ELSE commit_log[k].root
            /\ ext.kv = Last(exec_log).pre_kv
            /\ ext.root = Last(exec_log).pre_root

\* C23 witness: the executor returned an error for the second block, after
\* the first one changed the storage.
C23_Witness ==
    /\ exec_log # <<>>
    /\ ~Last(exec_log).ok
    /\ failed_at = "execute"
    /\ Len(commit_log) = 1
    /\ Unwrap(maybe_state_ext).ext.root # Unwrap(Unwrap(built).ext).root

\* C22: DidUpdate does not exist at the start of any block: after
\* on_finalize of every block, below or at and above StartHeight, the flag is
\* cleared, so a set_random_bytes call is never rejected for a seed set in an
\* earlier block. Stated for blocks that come one after the other.
C22_FlagCleared ==
    in_order =>
        /\ (phase = "idle" => DidUpdate = None)
        /\ (last_call.op = "set_random_bytes" /\ panic_message = SetOnlyOnce)
              => last_call.second

\* The current block holds what create_inherent returned and no other
\* set_random_bytes call.
BlockBuilt ==
    /\ IsSome(created)
    /\ ~foreign
    /\ applied = IsSome(Unwrap(created))

\* C21: create_inherent produces a set_random_bytes inherent exactly when
\* now >= StartHeight, the blocks in which on_finalize requires the seed; a
\* block built from its output never fails on_finalize for lack of randomness
\* and never carries a seed inherent below StartHeight.
C21_CreateIffStart ==
    /\ last_call.op = "create_inherent" =>
          (last_call.outcome = "Some" <=> last_call.now >= StartHeight)
    /\ (last_call.op = "on_finalize" /\ BlockBuilt) => last_call.outcome = "Ok"
    /\ (phase # "idle" /\ ~foreign /\ block_number < StartHeight) =>
          (~applied /\ first_seed = None)

\* C21, amended: below StartHeight create_inherent returns None; at or above
\* it, it returns set_random_bytes with the randomness of the inherent data
\* when the data holds one, and panics when the data holds none or does not
\* decode. A block built from its output passes on_finalize, with the seed
\* set in it exactly when its number is at least StartHeight, and carries no
\* seed below StartHeight.
C21_CreateFromStart ==
    /\ last_call.op = "create_inherent" =>
          IF last_call.now < StartHeight
          THEN last_call.outcome = "None" /\ created = Some(None)
          ELSE IF last_call.data = "ok"
          THEN last_call.outcome = "Some" /\ created = Some(last_call.randomness)
          ELSE /\ last_call.outcome = "panic"
               /\ phase = "panicked"
               /\ created = None
               /\ panic_message =
                     IF last_call.data = "error" THEN DataError ELSE DataMissing
    /\ (last_call.op = "on_finalize" /\ BlockBuilt) =>
          /\ last_call.outcome = "Ok"
          /\ IsSome(first_seed) <=> last_call.now >= StartHeight
          /\ applied <=> last_call.now >= StartHeight
    /\ (phase # "idle" /\ ~foreign /\ block_number < StartHeight) =>
          (~applied /\ first_seed = None)

\* C21 witness: a block at StartHeight built from create_inherent's output
\* has passed on_finalize with its seed set.
C21_Witness ==
    /\ last_call.op = "on_finalize"
    /\ last_call.outcome = "Ok"
    /\ last_call.now = StartHeight
    /\ BlockBuilt
    /\ applied
    /\ Seed = Unwrap(created)

====
